---------------------------- MODULE Spec2Model ----------------------------
(***************************************************************************)
(* PBL Guardian: the timing evaluator (scripts/timing_checker.py), the     *)
(* equity analyzer (scripts/contribution_checker.py) and the AI-fingerprint*)
(* and commit-behaviour layers of scripts/plagiarism_checker.py.           *)
(*                                                                         *)
(* Time is counted in whole hours of a calendar whose day 0 is a Monday.   *)
(* A date "YYYY-MM-DD" is its day number; a datetime is an hour number.    *)
(* Python's None is the empty sequence <<>>, a present value v is <<v>>.   *)
(* A float that is the quotient of two integers is the pair <<num, den>>.  *)
(***************************************************************************)
EXTENDS Integers, Sequences, FiniteSets, TLC

VARIABLES
    analyzer,   \* which analyzer this run exercises
    config,     \* the .pbl/config.json contents handed to check_timing
    commit,     \* the commit_timestamp_iso argument of the last check_timing call
    timing,     \* the dict returned by (or the exception raised by) that call
    values,     \* the list handed to _calculate_gini
    gini,       \* what _calculate_gini returned, None (<<>>) before the call
    members,    \* the commit count of each contributor, in the order of the git log
    min_contribution_pct,   \* check_contributions' argument, in tenths of a percent
    contribution,           \* the dict check_contributions returned
    metrics,    \* what layer4_ai_detection counted in the source tree
    ai_detection,           \* the dict layer4_ai_detection returned
    git_log_raised,         \* whether running git log raised (no git, timeout)
    commits,    \* the commits layer5_commit_patterns parsed from the git log
    commit_patterns,   \* the dict layer5_commit_patterns returned
    lines,   \* the lines of git log output handed to the line parser
    parsed_commits,   \* the commits list the line parser built
    search,   \* the token, the requests import and the extracted functions with the API's answers
    github_search,   \* the dict layer3_github_search returned
    proof_dir,   \* the proof directory handed to check_proofs
    diff_tree,   \* the commit check_proofs inspects, as git diff-tree sees it
    stored,   \* the file names found under the proof directory on disk
    proofs,   \* the dict check_proofs returned
    checks,   \* what each check of run_evaluation meets: the timestamp, the linter, the verdicts of the other analyzers
    evaluation,   \* the dict run_evaluation returned
    clock,   \* the wall clock of the machine, in hours
    called_at,   \* the clock readings at which the analyzer was called
    first_run,   \* what the first call of the analyzer returned
    second_run   \* what the second call, on the same inputs, returned

contributionVars == <<members, min_contribution_pct, contribution>>
aiVars == <<metrics, ai_detection>>
patternVars == <<git_log_raised, commits, commit_patterns>>
parserVars == <<lines, parsed_commits>>
searchVars == <<search, github_search>>
proofVars == <<proof_dir, diff_tree, stored, proofs>>
evaluationVars == <<checks, evaluation>>
rerunVars == <<clock, called_at, first_run, second_run>>

vars ==
    <<analyzer, config, commit, timing, values, gini, contributionVars, aiVars,
      patternVars, parserVars,
      searchVars,
      proofVars,
      evaluationVars,
      rerunVars>>

\* The analyzers a run does not exercise are not called.
IdleContribution ==
    members = <<>> /\ min_contribution_pct = 0 /\ contribution = <<>>

IdleAi ==
    /\ metrics = [has_py_files |-> FALSE, total_code_lines |-> 0,
                  total_comment_lines |-> 0, total_functions |-> 0,
                  functions_with_docstrings |-> 0, variable_names |-> <<>>,
                  try_except_count |-> 0, total_blocks |-> 0]
    /\ ai_detection = <<>>

IdlePatterns ==
    git_log_raised = FALSE /\ commits = <<>> /\ commit_patterns = <<>>

IdleParser ==
    lines = <<>> /\ parsed_commits = <<>>

IdleSearch ==
    /\ search = [github_token |-> FALSE, requests |-> FALSE, functions |-> <<>>]
    /\ github_search = <<>>

IdleProofs ==
    /\ proof_dir = ""
    /\ diff_tree = [outcome |-> "raised", changes |-> {}]
    /\ stored = {}
    /\ proofs = <<>>

IdleEvaluation ==
    /\ checks = <<>>
    /\ evaluation = <<>>

IdleRerun ==
    /\ clock = 0
    /\ called_at = <<>>
    /\ first_run = <<>>
    /\ second_run = <<>>

None == <<>>
Some(v) == <<v>>

\* ------------------------------------------------------------------ bounds

\* Milestone deadlines are dates on days 1 .. MaxDeadlineDay.
MaxDeadlineDay == 3
\* Commits are stamped on the days 0 .. MaxDeadlineDay + DaysAfter.
DaysAfter == 1
\* The Gini input has at most MaxTeam values, each in 0 .. MaxCount.
MaxTeam == 4
MaxCount == 3

\* ------------------------------------------------------- calendar and zones

HoursPerDay == 24

\* datetime.min, the start of phase 0: earlier than every commit.
DatetimeMin == -1000000

\* ZoneInfo(key): the zone's UTC offset in hours, None for an unknown key
\* (ZoneInfoNotFoundError).  The zones listed have no daylight saving time.
ZoneInfo(key) ==
    CASE key = "UTC" -> Some(0)
      [] key = "Asia/Tokyo" -> Some(9)
      [] OTHER -> None

\* datetime.fromisoformat(s.replace("Z", "+00:00")): a well-formed stamp is a
\* wall-clock hour with a UTC offset and parses to the UTC instant; anything
\* else raises ValueError (None).
FromIsoFormat(ts) ==
    IF ts.wellformed THEN Some(ts.wall - ts.offset) ELSE None

\* commit_utc.astimezone(timezone): the local hour number in the zone.
AsTimezone(instant, offset) == instant + offset

\* datetime.date(): the calendar day of an hour number.
DateOf(t) == t \div HoursPerDay

\* strptime(deadline, "%Y-%m-%d").replace(tzinfo=timezone): local midnight.
DeadlineOf(milestone) == milestone.deadline * HoursPerDay

\* strftime("%A"): the weekday name of a local hour number.
WeekdayNames ==
    <<"Monday", "Tuesday", "Wednesday", "Thursday", "Friday", "Saturday", "Sunday">>

StrftimeA(t) == WeekdayNames[(DateOf(t) % 7) + 1]

\* str.lower() on the day names that occur.
Lower(s) ==
    CASE s \in {"Monday", "MONDAY", "monday"} -> "monday"
      [] s \in {"Tuesday", "TUESDAY", "tuesday"} -> "tuesday"
      [] s \in {"Wednesday", "WEDNESDAY", "wednesday"} -> "wednesday"
      [] s \in {"Thursday", "THURSDAY", "thursday"} -> "thursday"
      [] s \in {"Friday", "FRIDAY", "friday"} -> "friday"
      [] s \in {"Saturday", "SATURDAY", "saturday"} -> "saturday"
      [] s \in {"Sunday", "SUNDAY", "sunday"} -> "sunday"
      [] OTHER -> s

\* ------------------------------------------------------------ check_timing

\* The function's locals before the loop over the milestones.
LoopInit ==
    [current_phase |-> None, is_late |-> FALSE, is_within_milestone |-> FALSE,
     days_until_deadline |-> None, milestone_deadline |-> None]

\* The start of phase i's window: datetime.min for the first phase, else the
\* previous milestone's deadline (without grace).
PhaseStart(milestones, i) ==
    IF i = 1 THEN DatetimeMin ELSE DeadlineOf(milestones[i - 1])

\* Mutant: the grace bound taken as exclusive.
FallsInPhase_Exclusive(s, commit_local, deadline_with_grace, phase_start) ==
    /\ commit_local < deadline_with_grace
    /\ (s.current_phase = None \/ commit_local > phase_start)

\* "Check if commit falls in this phase".
FallsInPhase(s, commit_local, deadline_with_grace, phase_start) ==
    /\ commit_local <= deadline_with_grace
    /\ (s.current_phase = None \/ commit_local > phase_start)

\* Mutant: the grace period forgotten, every commit after the deadline late.
LateInPhase_NoGrace(s, commit_local, deadline, deadline_with_grace) ==
    IF commit_local > deadline THEN TRUE ELSE s.is_late

\* The is_late assignment inside a matched phase.
LateInPhase(s, commit_local, deadline, deadline_with_grace) ==
    IF commit_local > deadline
        THEN (IF commit_local <= deadline_with_grace THEN FALSE ELSE TRUE)
        ELSE s.is_late

\* One iteration of the loop, for the milestone at (1-based) index i.
LoopBody(s, milestones, i, commit_local, grace_hours) ==
    LET deadline == DeadlineOf(milestones[i])
        deadline_with_grace == deadline + grace_hours
        phase_start == PhaseStart(milestones, i)
    IN  IF FallsInPhase(s, commit_local, deadline_with_grace, phase_start)
            THEN [current_phase |-> Some(milestones[i].phase),
                  milestone_deadline |-> Some(deadline),
                  days_until_deadline |->
                      Some(milestones[i].deadline - DateOf(commit_local)),
                  is_within_milestone |-> TRUE,
                  is_late |->
                      LateInPhase(s, commit_local, deadline, deadline_with_grace)]
            ELSE s

\* The whole loop: the iterations i .. Len(milestones), in order, none skipped.
RECURSIVE PhaseLoop(_, _, _, _, _)
PhaseLoop(s, milestones, i, commit_local, grace_hours) ==
    IF i > Len(milestones)
        THEN s
        ELSE PhaseLoop(LoopBody(s, milestones, i, commit_local, grace_hours),
                       milestones, i + 1, commit_local, grace_hours)

\* Mutant: the "and milestones" guard dropped.
NoPhaseMatched_Unguarded(s, milestones) ==
    s.current_phase = None

\* "If no phase matched, commit is after all deadlines".
NoPhaseMatched(s, milestones) ==
    s.current_phase = None /\ milestones # <<>>

\* Mutant: the fallback takes milestones[0] instead of milestones[-1].
PastAllDeadlines_First(s, milestones, commit_local) ==
    LET first == milestones[1]
    IN  [current_phase |-> Some(first.phase),
         milestone_deadline |-> Some(DeadlineOf(first)),
         days_until_deadline |-> Some(first.deadline - DateOf(commit_local)),
         is_late |-> TRUE,
         is_within_milestone |-> FALSE]

\* The locals after the fallback to the last milestone.
PastAllDeadlines(s, milestones, commit_local) ==
    LET last == milestones[Len(milestones)]
    IN  [current_phase |-> Some(last.phase),
         milestone_deadline |-> Some(DeadlineOf(last)),
         days_until_deadline |-> Some(last.deadline - DateOf(commit_local)),
         is_late |-> TRUE,
         is_within_milestone |-> FALSE]

\* "Determine status".
StatusOf(is_late, is_class_day) ==
    IF is_late THEN "Late"
    ELSE IF is_class_day THEN "On Time (Class Day)"
    ELSE "On Time"

\* Mutant: the configured class days not lower-cased.
IsClassDay_CaseSensitive(commit_local, class_days) ==
    Lower(StrftimeA(commit_local)) \in {class_days[k] : k \in DOMAIN class_days}

\* "Check if commit is on a class day".
IsClassDay(commit_local, class_days) ==
    Lower(StrftimeA(commit_local)) \in {Lower(class_days[k]) : k \in DOMAIN class_days}

NoException == "none"

\* A call that ended in an exception returns nothing.
Raised(exception) ==
    [raised |-> exception, passed |-> FALSE, is_class_day |-> FALSE,
     is_within_milestone |-> FALSE, is_late |-> FALSE, current_phase |-> None,
     days_until_deadline |-> None, commit_day |-> "", commit_local_time |-> None,
     status |-> ""]

\* The returned dict.
ResultOf(s, is_class_day, commit_local) ==
    [raised |-> NoException,
     passed |-> ~s.is_late,
     is_class_day |-> is_class_day,
     is_within_milestone |-> s.is_within_milestone,
     is_late |-> s.is_late,
     current_phase |-> s.current_phase,
     days_until_deadline |-> s.days_until_deadline,
     commit_day |-> StrftimeA(commit_local),
     commit_local_time |-> Some(commit_local),
     status |-> StatusOf(s.is_late, is_class_day)]

check_timing(cfg, commit_timestamp_iso) ==
    LET timezone == ZoneInfo(cfg.timezone)
        commit_utc == FromIsoFormat(commit_timestamp_iso)
    IN  IF timezone = None THEN Raised("ZoneInfoNotFoundError")
        ELSE IF commit_utc = None THEN Raised("ValueError")
        ELSE
            LET commit_local == AsTimezone(commit_utc[1], timezone[1])
                is_class_day == IsClassDay(commit_local, cfg.class_days)
                s == PhaseLoop(LoopInit, cfg.milestones, 1, commit_local,
                               cfg.grace_period_hours)
            IN  IF NoPhaseMatched(s, cfg.milestones)
                    THEN IF cfg.milestones = <<>>
                            THEN Raised("IndexError")
                            ELSE ResultOf(PastAllDeadlines(s, cfg.milestones, commit_local),
                                          is_class_day, commit_local)
                    ELSE ResultOf(s, is_class_day, commit_local)

\* ---------------------------------------------------------- timing inputs

PhaseLabels == <<"Phase 1", "Phase 2", "Phase 3", "Phase 4", "Phase 5">>

DeadlineDays == 1 .. MaxDeadlineDay

\* The days of a set, in increasing order.
RECURSIVE SortedDays(_)
SortedDays(S) ==
    IF S = {} THEN <<>>
    ELSE LET m == CHOOSE x \in S : \A y \in S : x <= y
         IN  <<m>> \o SortedDays(S \ {m})

\* The milestone lists: every choice of deadline days, deadlines strictly
\* increasing by index (the configuration's stated invariant), labelled in order.
MilestoneLists ==
    { [i \in 1 .. Cardinality(S) |->
          [phase |-> PhaseLabels[i], deadline |-> SortedDays(S)[i]]] :
      S \in SUBSET DeadlineDays }

\* Grace periods: none, the default of two hours, and more than a day.
GraceHours == {0, 2, 26}

ClassDayLists ==
    { <<>>, <<"Monday", "Saturday">>, <<"TUESDAY", "wednesday", "Sunday">> }

ZoneKeys == {"UTC", "Asia/Tokyo", "Mars/Phobos"}

Configs ==
    [timezone : ZoneKeys, grace_period_hours : GraceHours,
     class_days : ClassDayLists, milestones : MilestoneLists]

LastHour == (MaxDeadlineDay + DaysAfter + 1) * HoursPerDay - 1

Malformed == [wellformed |-> FALSE, wall |-> 0, offset |-> 0]

\* Commit stamps: every wall-clock hour of the days covered, written with a
\* UTC ("Z") or a +09:00 offset, and one string that is no ISO-8601 stamp.
Timestamps ==
    [wellformed : {TRUE}, wall : 0 .. LastHour, offset : {0, 9}] \cup {Malformed}

NoCommit == [wellformed |-> FALSE, wall |-> -1, offset |-> 0]

NoConfig ==
    [timezone |-> "UTC", grace_period_hours |-> 0, class_days |-> <<>>,
     milestones |-> <<>>]

\* ------------------------------------------------------------ action

\* run_evaluation calls check_timing once per evaluation.
CheckTiming ==
    /\ analyzer = "timing"
    /\ timing = None
    /\ \E ts \in Timestamps :
          /\ commit' = ts
          /\ timing' = Some(check_timing(config, ts))
    /\ UNCHANGED <<rerunVars, evaluationVars, proofVars, searchVars, parserVars, analyzer, config, values, gini, contributionVars, aiVars,
                   patternVars>>

InitTiming ==
    /\ analyzer = "timing"
    /\ IdleRerun
    /\ IdleEvaluation
    /\ IdleProofs
    /\ IdleSearch
    /\ IdleParser
    /\ config \in Configs
    /\ commit = NoCommit
    /\ timing = None
    /\ values = <<>>
    /\ gini = None
    /\ IdleContribution
    /\ IdleAi
    /\ IdlePatterns

NextTiming == CheckTiming

SpecTiming == InitTiming /\ [][NextTiming]_vars


\* --------------------------------------------------------- _calculate_gini

\* sum(values)
RECURSIVE Sum(_)
Sum(xs) == IF xs = <<>> THEN 0 ELSE Head(xs) + Sum(Tail(xs))

\* Insert x into the ascending list xs, after the values equal to it.
RECURSIVE Insert(_, _)
Insert(x, xs) ==
    IF xs = <<>> THEN <<x>>
    ELSE IF x < Head(xs) THEN <<x>> \o xs
    ELSE <<Head(xs)>> \o Insert(x, Tail(xs))

\* sorted(values): the same values in ascending order.
RECURSIVE Sorted(_)
Sorted(xs) == IF xs = <<>> THEN <<>> ELSE Insert(Head(xs), Sorted(Tail(xs)))

\* Mutant: the difference taken without abs().
AbsDiff_Signed(xi, xj) == xi - xj

\* abs(xi - xj)
AbsDiff(xi, xj) == IF xi >= xj THEN xi - xj ELSE xj - xi

\* The inner loop: numerator += abs(xi - xj) for j = j0 .. len.
RECURSIVE InnerLoop(_, _, _)
InnerLoop(xs, i, j) ==
    IF j > Len(xs) THEN 0 ELSE AbsDiff(xs[i], xs[j]) + InnerLoop(xs, i, j + 1)

\* Mutant: the inner loop started at j = i, each pair counted once.
RECURSIVE OuterLoop_UpperTriangle(_, _)
OuterLoop_UpperTriangle(xs, i) ==
    IF i > Len(xs) THEN 0
    ELSE InnerLoop(xs, i, i) + OuterLoop_UpperTriangle(xs, i + 1)

\* The outer loop over i, each with a full inner loop over j.
RECURSIVE OuterLoop(_, _)
OuterLoop(xs, i) ==
    IF i > Len(xs) THEN 0 ELSE InnerLoop(xs, i, 1) + OuterLoop(xs, i + 1)

\* "Gini formula": the numerator over the sorted values.
Numerator(sorted_values) == OuterLoop(sorted_values, 1)

\* Mutant: the factor 2 of the denominator dropped.
Denominator_NoTwo(n, total) == n * total

\* denominator = 2 * n * total
Denominator(n, total) == 2 * n * total

\* The float 0.0.
Zero == <<0, 1>>

\* The early returns and the final division; the quotient numerator/denominator
\* is kept as the pair of its integer operands.
calculate_gini(vals) ==
    IF vals = <<>> \/ Sum(vals) = 0 THEN Zero
    ELSE LET n == Len(vals)
         IN  IF n = 1 THEN Zero
             ELSE LET sorted_values == Sorted(vals)
                      total == Sum(sorted_values)
                      numerator == Numerator(sorted_values)
                      denominator == Denominator(n, total)
                  IN  IF denominator = 0 THEN Zero
                      ELSE <<numerator, denominator>>

\* ------------------------------------------------------------ gini inputs

\* Every list of at most n values, each in 0 .. MaxCount.
RECURSIVE ListsUpTo(_)
ListsUpTo(n) ==
    IF n = 0 THEN {<<>>}
    ELSE ListsUpTo(n - 1) \cup [1 .. n -> 0 .. MaxCount]

\* The commit-count lists of the repository's tests.
TestLists ==
    { <<10, 10, 10, 10>>, <<50>>, <<0, 0, 0, 100>>, <<5, 10, 15, 20>>, <<1, 9>> }

ValueLists == ListsUpTo(MaxTeam) \cup TestLists

CalculateGini ==
    /\ analyzer = "gini"
    /\ gini = None
    /\ gini' = Some(calculate_gini(values))
    /\ UNCHANGED <<rerunVars, evaluationVars, proofVars, searchVars, parserVars, analyzer, config, commit, timing, values, contributionVars,
                   aiVars, patternVars>>

InitGini ==
    /\ analyzer = "gini"
    /\ IdleRerun
    /\ IdleEvaluation
    /\ IdleProofs
    /\ IdleSearch
    /\ IdleParser
    /\ values \in ValueLists
    /\ gini = None
    /\ config = NoConfig
    /\ commit = NoCommit
    /\ timing = None
    /\ IdleContribution
    /\ IdleAi
    /\ IdlePatterns

NextGini == CalculateGini

SpecGini == InitGini /\ [][NextGini]_vars

\* ------------------------------------------------------ check_contributions

\* round(num / den * scale, ndigits) for non-negative operands, as the integer
\* count of the last digit kept: the nearest one, a tie going to the even one.
RoundHalfEven(num, den) ==
    LET q == num \div den
        r == num % den
    IN  IF 2 * r < den THEN q
        ELSE IF 2 * r > den THEN q + 1
        ELSE IF q % 2 = 0 THEN q ELSE q + 1

\* total_commits = sum(m["commits"] ...)
TotalOf(mem) == Sum(mem)

\* data["commit_pct"], in tenths of a percent: round(commits / total * 100, 1).
CommitPct(commit_count, total_commits) ==
    IF total_commits > 0 THEN RoundHalfEven(commit_count * 1000, total_commits)
    ELSE 0

CommitPcts(mem) == [i \in DOMAIN mem |-> CommitPct(mem[i], TotalOf(mem))]

\* gini = round(_calculate_gini(commit_counts), 3), in thousandths.
RoundedGini(mem) ==
    LET g == calculate_gini(mem) IN RoundHalfEven(g[1] * 1000, g[2])

\* The low-contribution test of one contributor.
LowContribution(commit_pct, min_pct, total_commits) ==
    commit_pct < min_pct /\ total_commits > 5

\* The loop that appends one warning per low contributor, from index i on.
RECURSIVE LowWarnings(_, _, _, _)
LowWarnings(mem, pcts, min_pct, i) ==
    IF i > Len(mem) THEN <<>>
    ELSE (IF LowContribution(pcts[i], min_pct, TotalOf(mem))
              THEN <<[kind |-> "low", name |-> i, commit_pct |-> pcts[i]]>>
              ELSE <<>>)
         \o LowWarnings(mem, pcts, min_pct, i + 1)

\* max(m["commit_pct"] ...) over a non-empty team.
MaxPct(pcts) == CHOOSE x \in {pcts[i] : i \in DOMAIN pcts} :
                    \A i \in DOMAIN pcts : pcts[i] <= x

\* "Check for single-person dominance".
Dominance(max_pct, team_size) == max_pct > 700 /\ team_size > 1

\* max(members.items(), key=commits): the first contributor with the most commits.
Dominant(mem) ==
    CHOOSE i \in DOMAIN mem :
        /\ \A j \in DOMAIN mem : mem[j] <= mem[i]
        /\ \A j \in 1 .. i - 1 : mem[j] < mem[i]

DominanceWarnings(mem, pcts) ==
    IF Dominance(MaxPct(pcts), Len(mem))
        THEN <<[kind |-> "dominance", name |-> Dominant(mem),
                commit_pct |-> pcts[Dominant(mem)]]>>
        ELSE <<>>

\* Mutant: the comparison with 0.5 made inclusive.
Unbalanced_Inclusive(gini_thousandths, team_size) ==
    gini_thousandths >= 500 /\ team_size > 1

\* "Determine pass/fail": the first branch of the label chain.
Unbalanced(gini_thousandths, team_size) ==
    gini_thousandths > 500 /\ team_size > 1

\* The label chain.
EquityLabel(gini_thousandths, team_size, warnings) ==
    IF Unbalanced(gini_thousandths, team_size) THEN "Unbalanced"
    ELSE IF warnings # <<>> THEN "Needs Attention"
    ELSE "Balanced"

\* The emoji chain: a check mark, a warning sign, a cross.
EquityEmoji(gini_thousandths) ==
    IF gini_thousandths <= 200 THEN "ok"
    ELSE IF gini_thousandths <= 400 THEN "warning"
    ELSE "cross"

\* The result for a repository without history.
NoHistory ==
    [passed |-> TRUE, members |-> <<>>, gini_coefficient |-> 0,
     total_commits |-> None, warnings |-> <<[kind |-> "No git history found"]>>,
     equity_label |-> None, status_emoji |-> "warning"]

check_contributions(mem, min_pct) ==
    IF mem = <<>> THEN NoHistory
    ELSE
        LET pcts == CommitPcts(mem)
            gini_thousandths == RoundedGini(mem)
            warnings == LowWarnings(mem, pcts, min_pct, 1)
                            \o DominanceWarnings(mem, pcts)
            label == EquityLabel(gini_thousandths, Len(mem), warnings)
        IN  [passed |-> label # "Unbalanced",
             members |-> pcts,
             gini_coefficient |-> gini_thousandths,
             total_commits |-> Some(TotalOf(mem)),
             warnings |-> warnings,
             equity_label |-> Some(label),
             status_emoji |-> EquityEmoji(gini_thousandths)]

\* The team has at most MaxMembers contributors with 0 .. MaxCommits commits
\* each (a contributor seen only in the numstat log has 0 commits).
MaxMembers == 3
MaxCommits == 8

RECURSIVE TeamsUpTo(_)
TeamsUpTo(n) ==
    IF n = 0 THEN {<<>>}
    ELSE TeamsUpTo(n - 1) \cup [1 .. n -> 0 .. MaxCommits]

\* Long histories, where the rounding of a share or of the score decides.
LongHistories == { <<20, 181>>, <<145, 62>>, <<0, 84, 253>> }

Teams == TeamsUpTo(MaxMembers) \cup LongHistories

\* The default of 10.0 percent, and a quarter.
MinContributionPcts == {100, 250}

CheckContributions ==
    /\ analyzer = "contribution"
    /\ contribution = None
    /\ contribution' = Some(check_contributions(members, min_contribution_pct))
    /\ UNCHANGED <<rerunVars, evaluationVars, proofVars, searchVars, parserVars, analyzer, config, commit, timing, values, gini, members,
                   min_contribution_pct, aiVars, patternVars>>

InitContribution ==
    /\ analyzer = "contribution"
    /\ IdleRerun
    /\ IdleEvaluation
    /\ IdleProofs
    /\ IdleSearch
    /\ IdleParser
    /\ members \in Teams
    /\ min_contribution_pct \in MinContributionPcts
    /\ contribution = None
    /\ config = NoConfig
    /\ commit = NoCommit
    /\ timing = None
    /\ values = <<>>
    /\ gini = None
    /\ IdleAi
    /\ IdlePatterns

NextContribution == CheckContributions

SpecContribution == InitContribution /\ [][NextContribution]_vars

\* ------------------------------------- layer4_ai_detection (AI heuristics)
\*
\* metrics holds what the walk over the Python files measured: the line
\* counts, the function counts, the lengths of the stored variable names and
\* the control-block counts.  Sub-scores are in tenths, ai_score in hundredths.

NoScores == [scores |-> <<>>, flags |-> <<>>]

\* scores.append(score), and flags.append(...) when the branch has a flag.
Scored(acc, score, flag) ==
    [scores |-> Append(acc.scores, score),
     flags |-> IF flag = None THEN acc.flags ELSE Append(acc.flags, flag[1])]

\* Mutant: the top band of the comment heuristic scored without its flag.
Heuristic1_Silent(acc, m) ==
    IF m.total_code_lines > 0
    THEN LET all_lines == m.total_code_lines + m.total_comment_lines
         IN IF 10 * m.total_comment_lines > 4 * all_lines
            THEN Scored(acc, 8, None)
            ELSE IF 10 * m.total_comment_lines > 3 * all_lines
                 THEN Scored(acc, 4, Some("High comment ratio"))
                 ELSE Scored(acc, 1, None)
    ELSE acc

\* HEURISTIC 1: comment-to-code ratio, when there is a code line.
Heuristic1(acc, m) ==
    IF m.total_code_lines > 0
    THEN LET all_lines == m.total_code_lines + m.total_comment_lines
         IN IF 10 * m.total_comment_lines > 4 * all_lines
            THEN Scored(acc, 8, Some("Very high comment ratio"))
            ELSE IF 10 * m.total_comment_lines > 3 * all_lines
                 THEN Scored(acc, 4, Some("High comment ratio"))
                 ELSE Scored(acc, 1, None)
    ELSE acc

\* HEURISTIC 2: docstring completeness, with more than 2 functions.
Heuristic2(acc, m) ==
    IF m.total_functions > 2
    THEN IF 10 * m.functions_with_docstrings > 9 * m.total_functions
         THEN Scored(acc, 7, Some("Near-perfect docstring coverage"))
         ELSE IF 10 * m.functions_with_docstrings > 7 * m.total_functions
              THEN Scored(acc, 3, None)
              ELSE Scored(acc, 1, None)
    ELSE acc

\* The number of names longer than 15 characters.
LongNames(names) == Cardinality({i \in DOMAIN names : names[i] > 15})

\* HEURISTIC 3: variable naming uniformity, when a name was stored:
\* avg_name_length > 12 and long_name_ratio > 0.3.
Heuristic3(acc, m) ==
    IF m.variable_names # <<>>
    THEN LET n == Len(m.variable_names)
         IN IF /\ Sum(m.variable_names) > 12 * n
               /\ 10 * LongNames(m.variable_names) > 3 * n
            THEN Scored(acc, 6, Some("Unusually long variable names"))
            ELSE Scored(acc, 1, None)
    ELSE acc

\* HEURISTIC 4: error handling density, with more than 3 control blocks.
Heuristic4(acc, m) ==
    IF m.total_blocks > 3
    THEN IF 2 * m.try_except_count > m.total_blocks
         THEN Scored(acc, 6, Some("High try/except density"))
         ELSE Scored(acc, 1, None)
    ELSE acc

\* The lists of four sub-scores whose double-precision mean lies below the
\* midpoint between two hundredths although their exact mean lies on it:
\* (0.4 + 0.3 + 0.6 + 0.6) / 4 = 0.475 -> 0.47, (0.4 + 0.3 + 0.1 + 0.1) / 4
\* = 0.225 -> 0.22, (0.4 + 0.1 + 0.1 + 0.1) / 4 = 0.175 -> 0.17.  The mean of
\* every other list on a midpoint lies above it and rounds up.
MeanBelowMidpoint == { <<4, 3, 6, 6>>, <<4, 3, 1, 1>>, <<4, 1, 1, 1>> }

\* Mutant: the sum of the sub-scores divided by the number of heuristics.
ai_score_OverFour(scores) ==
    IF scores # <<>> THEN RoundHalfEven(Sum(scores) * 10, 4) ELSE 0

\* ai_score = round(sum(scores) / len(scores), 2) if scores else 0.0
ai_score(scores) ==
    IF scores # <<>>
    THEN LET num == Sum(scores) * 10
             den == Len(scores)
             q == num \div den
             r == num % den
         IN IF 2 * r < den THEN q
            ELSE IF 2 * r > den THEN q + 1
            ELSE IF scores \in MeanBelowMidpoint THEN q ELSE q + 1
    ELSE 0

\* Mutant: the 'Suspicious' threshold made exclusive.
StatusOfScore_Exclusive(score) ==
    IF score >= 60 THEN [passed |-> FALSE, status_label |-> "Likely AI"]
    ELSE IF score > 40 THEN [passed |-> TRUE, status_label |-> "Suspicious"]
    ELSE [passed |-> TRUE, status_label |-> "Human"]

\* "Determine status".
StatusOfScore(score) ==
    IF score >= 60 THEN [passed |-> FALSE, status_label |-> "Likely AI"]
    ELSE IF score >= 40 THEN [passed |-> TRUE, status_label |-> "Suspicious"]
    ELSE [passed |-> TRUE, status_label |-> "Human"]

NoPythonFiles ==
    [ai_score |-> 0, scores |-> <<>>, flags |-> <<>>, passed |-> TRUE,
     status_label |-> "No Python files to analyze"]

\* The result, with the scores list as it stands at the return.
layer4_ai_detection(m) ==
    IF ~m.has_py_files THEN NoPythonFiles
    ELSE LET acc == Heuristic4(Heuristic3(Heuristic2(Heuristic1(NoScores, m),
                                                     m), m), m)
             score == ai_score(acc.scores)
         IN [ai_score |-> score, scores |-> acc.scores, flags |-> acc.flags,
             passed |-> StatusOfScore(score).passed,
             status_label |-> StatusOfScore(score).status_label]

\* At most MaxFunctions functions, MaxBlocks control blocks and MaxNames
\* stored names are measured.
MaxFunctions == 4
MaxBlocks == 4
MaxNames == 2

\* No code line, a single one, or a file of ordinary size.
CodeLines == {0, 1, 40}
\* With 40 code lines: ratios 0, 0.18, 0.33 and 0.43.
CommentLines == {0, 9, 20, 30}
\* A short name, a long one, and one longer than 15 characters.
NameLengths == {2, 14, 18}

RECURSIVE NameListsUpTo(_)
NameListsUpTo(n) ==
    IF n = 0 THEN {<<>>}
    ELSE NameListsUpTo(n - 1) \cup [1 .. n -> NameLengths]

\* What a walk can measure: a function, a control block and an except clause
\* each take a code line of their own, and a tree without a code line has no
\* function, block or name.
Measurable(m) ==
    /\ m.functions_with_docstrings <= m.total_functions
    /\ m.try_except_count <= m.total_blocks
    /\ m.total_functions + m.total_blocks + m.try_except_count
          <= m.total_code_lines
    /\ m.total_code_lines = 0 => m.variable_names = <<>>
    /\ ~m.has_py_files =>
          m.total_code_lines = 0 /\ m.total_comment_lines = 0

MetricBundles ==
    {m \in [has_py_files : BOOLEAN,
            total_code_lines : CodeLines,
            total_comment_lines : CommentLines,
            total_functions : 0 .. MaxFunctions,
            functions_with_docstrings : 0 .. MaxFunctions,
            variable_names : NameListsUpTo(MaxNames),
            try_except_count : 0 .. MaxBlocks,
            total_blocks : 0 .. MaxBlocks] : Measurable(m)}

CheckAi ==
    /\ analyzer = "ai"
    /\ ai_detection = None
    /\ ai_detection' = Some(layer4_ai_detection(metrics))
    /\ UNCHANGED <<rerunVars, evaluationVars, proofVars, searchVars, parserVars, analyzer, config, commit, timing, values, gini,
                   contributionVars, metrics, patternVars>>

InitAi ==
    /\ analyzer = "ai"
    /\ IdleRerun
    /\ IdleEvaluation
    /\ IdleProofs
    /\ IdleSearch
    /\ IdleParser
    /\ metrics \in MetricBundles
    /\ ai_detection = None
    /\ config = NoConfig
    /\ commit = NoCommit
    /\ timing = None
    /\ values = <<>>
    /\ gini = None
    /\ IdleContribution
    /\ IdlePatterns

NextAi == CheckAi

SpecAi == InitAi /\ [][NextAi]_vars

\* ------------------------------- layer5_commit_patterns (commit behaviour)
\*
\* commits holds the output of git log, newest commit first, one entry per
\* commit: its author date (None when fromisoformat rejects it, as for a year
\* past 9999), its subject, and the sum of the added counts of its numstat
\* lines.  An entry's sha is its position in the log.  Time is in hours.

max_dump_lines == 200

\* line.strip() removes a trailing unit separator, which str.strip counts as
\* whitespace: the header of a commit with an empty subject is left with three
\* parts and opens no commit.
HeaderParts(entry) == IF entry.message = "" THEN 3 ELSE 4

\* The parser's state: the commits closed so far and current_commit.
ParserStart == [commits |-> <<>>, current_commit |-> None]

\* One commit of the log: its header line, then its numstat lines.
ParseEntry(st, entry, sha) ==
    IF HeaderParts(entry) = 4
    THEN [commits |-> IF st.current_commit # None
                      THEN Append(st.commits, st.current_commit[1])
                      ELSE st.commits,
          current_commit |-> Some([sha |-> sha, date |-> entry.date,
                                   additions |-> entry.additions])]
    ELSE IF st.current_commit # None
         THEN [st EXCEPT !.current_commit =
                  Some([st.current_commit[1] EXCEPT
                            !.additions = @ + entry.additions])]
         ELSE st

RECURSIVE ParseFrom(_, _, _)
ParseFrom(st, log, i) ==
    IF i > Len(log) THEN st
    ELSE ParseFrom(ParseEntry(st, log[i], i), log, i + 1)

\* The commits list after the loop over the lines and the final append.
ParseLog(log) ==
    LET st == ParseFrom(ParserStart, log, 1)
    IN IF st.current_commit # None
       THEN Append(st.commits, st.current_commit[1])
       ELSE st.commits

\* CHECK 1: one critical flag per commit above the ceiling.
RECURSIVE CodeDumps(_, _)
CodeDumps(parsed, i) ==
    IF i > Len(parsed) THEN <<>>
    ELSE IF parsed[i].additions > max_dump_lines
         THEN <<[kind |-> "Code dump", critical |-> TRUE, sha |-> parsed[i].sha,
                 additions |-> parsed[i].additions]>>
              \o CodeDumps(parsed, i + 1)
         ELSE CodeDumps(parsed, i + 1)

\* commit_dates: the commits whose date parses, as (dt, additions).
RECURSIVE CommitDates(_, _)
CommitDates(parsed, i) ==
    IF i > Len(parsed) THEN <<>>
    ELSE IF parsed[i].date # None
         THEN <<[dt |-> parsed[i].date[1], additions |-> parsed[i].additions]>>
              \o CommitDates(parsed, i + 1)
         ELSE CommitDates(parsed, i + 1)

\* commit_dates.sort(key=lambda x: x[0]): stable, ascending by dt.
RECURSIVE InsertByDate(_, _)
InsertByDate(x, s) ==
    IF s = <<>> THEN <<x>>
    ELSE IF x.dt < Head(s).dt THEN <<x>> \o s
    ELSE <<Head(s)>> \o InsertByDate(x, Tail(s))

RECURSIVE SortByDate(_)
SortByDate(s) ==
    IF s = <<>> THEN <<>>
    ELSE InsertByDate(s[Len(s)], SortByDate(SubSeq(s, 1, Len(s) - 1)))

RECURSIVE Additions(_)
Additions(s) ==
    IF s = <<>> THEN 0 ELSE Head(s).additions + Additions(Tail(s))

\* dt >= cutoff_time, with cutoff_time = first + 0.75 * total_span.
AtOrAfterCutoff(dt, first, total_span) == 4 * dt >= 4 * first + 3 * total_span

LateAdditions(sorted, first, total_span) ==
    Additions(SelectSeq(sorted,
                        LAMBDA c : AtOrAfterCutoff(c.dt, first, total_span)))

\* CHECK 2: the last-minute rush warning.
Rush(parsed) ==
    LET commit_dates == CommitDates(parsed, 1)
    IN IF Len(commit_dates) > 3
       THEN LET sorted == SortByDate(commit_dates)
                first == sorted[1].dt
                total_span == sorted[Len(sorted)].dt - first
            IN IF /\ total_span > 0
                  /\ Additions(sorted) > 0
                  /\ 10 * LateAdditions(sorted, first, total_span)
                        > 6 * Additions(sorted)
               THEN <<[kind |-> "Rush detected", critical |-> FALSE]>>
               ELSE <<>>
       ELSE <<>>

\* CHECK 3: the low commit frequency warning.
LowFrequency(parsed) ==
    IF /\ Len(parsed) > 0
       /\ Additions(parsed) > 150 * Len(parsed)
       /\ Len(parsed) < 5
    THEN <<[kind |-> "Low commit frequency", critical |-> FALSE]>>
    ELSE <<>>

\* "Determine overall status".
PatternLabel(flags) ==
    IF \E k \in DOMAIN flags : flags[k].critical THEN "Suspicious"
    ELSE IF flags # <<>> THEN "Needs Review"
    ELSE "Healthy"

\* Mutant: what the checks return for an empty list without the guard.
NoCommits_Unguarded ==
    [passed |-> TRUE, flags |-> <<>>, total_commits |-> Some(0),
     label |-> "Healthy"]

\* "if not commits": the neutral result.
NoCommits ==
    [passed |-> TRUE, flags |-> <<>>, total_commits |-> None,
     label |-> "No commits to analyze"]

\* The result when subprocess.run raised.
GitLogUnavailable ==
    [passed |-> TRUE, flags |-> <<>>, total_commits |-> None,
     label |-> "Git log unavailable"]

\* raised: running git log raised; log: its output otherwise.
layer5_commit_patterns(raised, log) ==
    IF raised THEN GitLogUnavailable
    ELSE LET parsed == ParseLog(log)
         IN IF parsed = <<>> THEN NoCommits
            ELSE LET flags == CodeDumps(parsed, 1) \o Rush(parsed)
                                 \o LowFrequency(parsed)
                 IN [passed |-> PatternLabel(flags) # "Suspicious",
                     flags |-> flags,
                     total_commits |-> Some(Len(parsed)),
                     label |-> PatternLabel(flags)]

\* The log has at most MaxLog commits.
MaxLog == 4

\* The first commit at hour 0, the last at hour 4: the cutoff is hour 3.
AuthorHours == {0, 3, 4}
\* No added line, the average the frequency check allows, a code dump.
AddedLines == {0, 150, 201}
Subjects == {"", "fix"}

\* The header of a commit with an empty subject is dropped whole and its date
\* is read by nobody: such commits are drawn at hour 0, with added lines.
LogEntries ==
    {e \in [date : {None} \cup {Some(t) : t \in AuthorHours},
            additions : AddedLines,
            message : Subjects] :
        e.message = "" => (e.date = Some(0) /\ e.additions > 0)}

RECURSIVE LogsUpTo(_)
LogsUpTo(n) ==
    IF n = 0 THEN {<<>>}
    ELSE LogsUpTo(n - 1) \cup [1 .. n -> LogEntries]

Titled(hour, added) ==
    [date |-> Some(hour), additions |-> added, message |-> "fix"]
Untitled(added) == [date |-> Some(0), additions |-> added, message |-> ""]

\* Logs of five commits, where the frequency check's commit count decides:
\* five large commits, and four large commits around one without a subject.
LongLogs ==
    { <<Titled(4, 201), Titled(4, 201), Titled(3, 201), Titled(0, 201),
        Titled(0, 201)>>,
      <<Titled(4, 201), Titled(4, 201), Untitled(201), Titled(0, 201),
        Titled(0, 201)>>,
      <<Titled(4, 150), Titled(4, 150), Titled(3, 201), Titled(0, 150),
        Titled(0, 150)>> }

Logs == LogsUpTo(MaxLog) \cup LongLogs

CheckPatterns ==
    /\ analyzer = "patterns"
    /\ commit_patterns = None
    /\ commit_patterns' =
           Some(layer5_commit_patterns(git_log_raised, commits))
    /\ UNCHANGED <<rerunVars, evaluationVars, proofVars, searchVars, parserVars, analyzer, config, commit, timing, values, gini,
                   contributionVars, aiVars, git_log_raised, commits>>

InitPatterns ==
    /\ analyzer = "patterns"
    /\ IdleRerun
    /\ IdleEvaluation
    /\ IdleProofs
    /\ IdleSearch
    /\ IdleParser
    /\ \/ git_log_raised = FALSE /\ commits \in Logs
       \/ git_log_raised = TRUE /\ commits = <<>>
    /\ commit_patterns = None
    /\ config = NoConfig
    /\ commit = NoCommit
    /\ timing = None
    /\ values = <<>>
    /\ gini = None
    /\ IdleContribution
    /\ IdleAi

NextPatterns == CheckPatterns

SpecPatterns == InitPatterns /\ [][NextPatterns]_vars

\* ------------------------- the git-log line parser of layer5_commit_patterns
\*
\* A line of the output is the list of its fields and the separator between
\* them: the unit separator \x1f in a commit header (sha, author, date,
\* subject), a tab in a numstat line (added, deleted, path), none in a line of
\* a single field.  A commit's sha is the position of its header line.

\* str.strip(): the unit separator and the tab are whitespace, so the empty
\* fields at both ends of the line go with their separators.
RECURSIVE StripLeft(_)
StripLeft(parts) ==
    IF parts # <<>> /\ Head(parts) = "" THEN StripLeft(Tail(parts)) ELSE parts

RECURSIVE StripRight(_)
StripRight(parts) ==
    IF parts # <<>> /\ parts[Len(parts)] = ""
    THEN StripRight(SubSeq(parts, 1, Len(parts) - 1))
    ELSE parts

Strip(line) == [line EXCEPT !.parts = StripRight(StripLeft(@))]

\* sep in line
Contains(line, sep) == line.sep = sep /\ Len(line.parts) >= 2

\* len(line.split(SEP, 3)): at most 3 splits.
SplitCount(line) == IF Len(line.parts) > 4 THEN 4 ELSE Len(line.parts)

\* int(): the decimal numerals of the numstat lines drawn.
IntOf == [t \in {"7", "40", "1"} |->
             CASE t = "7" -> 7 [] t = "40" -> 40 [] t = "1" -> 1]

\* int(field) if field != "-" else 0; None for a ValueError.
CountOf(field) ==
    IF field = "-" THEN Some(0)
    ELSE IF field \in DOMAIN IntOf THEN Some(IntOf[field])
    ELSE None

\* A numstat line credited to current_commit, unless int() raised.
Credit(st, added, deleted) ==
    IF added # None /\ deleted # None
    THEN [st EXCEPT !.current_commit =
             Some([st.current_commit[1] EXCEPT
                       !.additions = @ + added[1],
                       !.deletions = @ + deleted[1]])]
    ELSE st

\* The body of the loop over the lines.
ParseLine(st, raw, index) ==
    LET line == Strip(raw)
    IN IF line.parts = <<>> THEN st
       ELSE IF Contains(line, "unit")
            THEN IF SplitCount(line) = 4
                 THEN [commits |-> IF st.current_commit # None
                                   THEN Append(st.commits, st.current_commit[1])
                                   ELSE st.commits,
                       current_commit |->
                           Some([sha |-> index, additions |-> 0,
                                 deletions |-> 0])]
                 ELSE st
            ELSE IF st.current_commit # None /\ Contains(line, "tab")
                 THEN IF Len(line.parts) = 3
                      THEN Credit(st, CountOf(line.parts[1]),
                                  CountOf(line.parts[2]))
                      ELSE st
                 ELSE st

RECURSIVE ParseLinesFrom(_, _, _)
ParseLinesFrom(st, ls, i) ==
    IF i > Len(ls) THEN st
    ELSE ParseLinesFrom(ParseLine(st, ls[i], i), ls, i + 1)

\* The commits list after the loop and the final append.
ParseLines(ls) ==
    LET st == ParseLinesFrom(ParserStart, ls, 1)
    IN IF st.current_commit # None
       THEN Append(st.commits, st.current_commit[1])
       ELSE st.commits

\* The output has at most MaxLines lines.
MaxLines == 4

HeaderLine(subject) ==
    [sep |-> "unit", parts |-> <<"sha", "author", "date", subject>>]
StatLine(added, deleted) ==
    [sep |-> "tab", parts |-> <<added, deleted, "path">>]

\* Headers with and without a subject and a truncated one; numstat lines with
\* counts, for a binary file, with a field that is no number, and a truncated
\* one; the blank line git prints after a header.
LineKinds ==
    { HeaderLine("fix"), HeaderLine(""),
      [sep |-> "unit", parts |-> <<"sha", "author">>],
      StatLine("7", "1"), StatLine("40", "1"), StatLine("-", "-"),
      StatLine("x", "1"), StatLine("7", "x"),
      [sep |-> "tab", parts |-> <<"7", "1">>],
      [sep |-> "none", parts |-> <<"">>] }

RECURSIVE LineListsUpTo(_)
LineListsUpTo(n) ==
    IF n = 0 THEN {<<>>}
    ELSE LineListsUpTo(n - 1) \cup [1 .. n -> LineKinds]

ParseGitLog ==
    /\ analyzer = "parser"
    /\ parsed_commits = None
    /\ parsed_commits' = Some(ParseLines(lines))
    /\ UNCHANGED <<rerunVars, evaluationVars, proofVars, searchVars, analyzer, config, commit, timing, values, gini,
                   contributionVars, aiVars, patternVars, lines>>

InitParser ==
    /\ analyzer = "parser"
    /\ IdleRerun
    /\ IdleEvaluation
    /\ IdleProofs
    /\ IdleSearch
    /\ lines \in LineListsUpTo(MaxLines)
    /\ parsed_commits = None
    /\ config = NoConfig
    /\ commit = NoCommit
    /\ timing = None
    /\ values = <<>>
    /\ gini = None
    /\ IdleContribution
    /\ IdleAi
    /\ IdlePatterns

NextParser == ParseGitLog

SpecParser == InitParser /\ [][NextParser]_vars

\* ------------------------------------ layer3_github_search (code search)
\*
\* search.functions is what _extract_unique_functions returned, longest first:
\* for each function the number of meaningful tokens of its snippet and what
\* the search API answers to its query.

max_functions == 5

SkippedSearch ==
    [matches_found |-> 0, searched_functions |-> 0, flagged |-> <<>>,
     passed |-> TRUE]

Min(a, b) == IF a < b THEN a ELSE b
Max(a, b) == IF a > b THEN a ELSE b

\* The loop over functions[:3]: acc is matches_found and flagged.
RECURSIVE SearchFrom(_, _, _)
SearchFrom(acc, functions, i) ==
    IF i > Min(Len(functions), 3) THEN acc
    ELSE IF functions[i].meaningful < 3
         THEN SearchFrom(acc, functions, i + 1)
         ELSE CASE functions[i].response = "200 match" ->
                       SearchFrom([matches_found |-> acc.matches_found + 1,
                                   flagged |-> Append(acc.flagged, i)],
                                  functions, i + 1)
                [] functions[i].response = "403" -> acc
                [] OTHER -> SearchFrom(acc, functions, i + 1)

\* Mutant: a plain majority of the searched functions.
MatchCeiling_Majority(total_searched) == total_searched \div 2 + 1

\* max(total_searched // 2 + 1, 2): passed is matches_found below it.
MatchCeiling(total_searched) == Max(total_searched \div 2 + 1, 2)

layer3_github_search(s) ==
    IF ~s.github_token \/ ~s.requests \/ s.functions = <<>>
    THEN SkippedSearch
    ELSE LET found == SearchFrom([matches_found |-> 0, flagged |-> <<>>],
                                 s.functions, 1)
             total_searched == Min(Len(s.functions), 3)
         IN [matches_found |-> found.matches_found,
             searched_functions |-> total_searched,
             flagged |-> found.flagged,
             passed |-> found.matches_found < MatchCeiling(total_searched)]

\* A match, no match (total_count 0), rate limited, another status, and a
\* request that raised.
Responses == {"200 match", "200 none", "403", "500", "raised"}

\* A snippet with too few meaningful tokens is not searched, whatever the API
\* would answer.
ExtractedFunctions ==
    {f \in [meaningful : {2, 3}, response : Responses] :
        f.meaningful < 3 => f.response = "200 none"}

RECURSIVE FunctionListsUpTo(_)
FunctionListsUpTo(n) ==
    IF n = 0 THEN {<<>>}
    ELSE FunctionListsUpTo(n - 1) \cup [1 .. n -> ExtractedFunctions]

Searches ==
    [github_token : BOOLEAN, requests : BOOLEAN,
     functions : FunctionListsUpTo(max_functions)]

GithubSearch ==
    /\ analyzer = "search"
    /\ github_search = None
    /\ github_search' = Some(layer3_github_search(search))
    /\ UNCHANGED <<rerunVars, evaluationVars, proofVars, analyzer, config, commit, timing, values, gini,
                   contributionVars, aiVars, patternVars, parserVars, search>>

InitSearch ==
    /\ analyzer = "search"
    /\ IdleRerun
    /\ IdleEvaluation
    /\ IdleProofs
    /\ search \in Searches
    /\ github_search = None
    /\ config = NoConfig
    /\ commit = NoCommit
    /\ timing = None
    /\ values = <<>>
    /\ gini = None
    /\ IdleContribution
    /\ IdleAi
    /\ IdlePatterns
    /\ IdleParser

NextSearch == GithubSearch

SpecSearch == InitSearch /\ [][NextSearch]_vars

\* ------------------------------------------- check_proofs (proof of progress)
\*
\* A path is the sequence of its components; a change of the commit is a path,
\* how the commit touched it ("A" added, "M" modified, "D" deleted) and
\* whether the path is plain ASCII.  git diff-tree --name-only lists the path
\* of every change, deletions included, and writes a path that is not plain
\* ASCII in double quotes with octal escapes (core.quotePath); without --root
\* it lists nothing for a commit that has no parent.

IMAGE_EXTENSIONS == {".png", ".jpg", ".jpeg", ".gif", ".bmp", ".webp", ".svg"}
DOC_EXTENSIONS == {".md", ".txt", ".pdf", ".doc", ".docx"}

\* os.path.splitext(f)[1].lower() of the file names of the model.
Extension ==
    [n \in {".gitkeep", "shot.png", "capture.png", "log.md", "trace.bin",
            "main.py", "config.json", "ci.yml", "run.py"} |->
        CASE n = ".gitkeep" -> ""
          [] n \in {"shot.png", "capture.png"} -> ".png"
          [] n = "log.md" -> ".md"
          [] n = "trace.bin" -> ".bin"
          [] n \in {"main.py", "run.py"} -> ".py"
          [] n = "config.json" -> ".json"
          [] n = "ci.yml" -> ".yml"]

\* proof_dir.rstrip("/") as a path: the configured directories of the model.
DirOf(dir) ==
    CASE dir \in {"proofs", "proofs/"} -> <<"proofs">>
      [] dir = "docs/evidence/" -> <<"docs", "evidence">>

\* One line of the output of git diff-tree --name-only.
NameLine(change) == [quoted |-> ~change.plain, path |-> change.path]

\* result.stdout split into lines; an exception leaves no changed file.
ChangedFiles(tree) ==
    IF tree.outcome = "listed" THEN {NameLine(c) : c \in tree.changes}
    ELSE {}

\* f.startswith(prefix + "/"): a quoted line starts with the quote.
StartsWith(f, prefix) ==
    /\ ~f.quoted
    /\ Len(f.path) > Len(prefix)
    /\ SubSeq(f.path, 1, Len(prefix)) = prefix

BaseName(f) == f.path[Len(f.path)]

\* The extension of a line; the closing quote of a quoted line is part of it.
ExtOf(f) ==
    IF f.quoted THEN "quoted" ELSE Extension[BaseName(f)]

CodeChanged(changed_files, dir) ==
    \E f \in changed_files :
        /\ ~StartsWith(f, dir)
        /\ ~StartsWith(f, <<".pbl">>)
        /\ ~StartsWith(f, <<".github">>)
        /\ ~StartsWith(f, <<"scripts">>)

check_proofs(dir_arg, tree, on_disk) ==
    LET dir == DirOf(dir_arg)
        changed_files == ChangedFiles(tree)
        proof_files_in_commit == {f \in changed_files : StartsWith(f, dir)}
        counted == {f \in proof_files_in_commit : BaseName(f) # ".gitkeep"}
        new_screenshots == {f \in counted : ExtOf(f) \in IMAGE_EXTENSIONS}
        new_documents ==
            {f \in counted \ new_screenshots : ExtOf(f) \in DOC_EXTENSIONS}
        new_other == (counted \ new_screenshots) \ new_documents
        has_screenshots == new_screenshots # {}
        has_progress_log == new_documents # {}
        has_any_proof == has_screenshots \/ has_progress_log \/ new_other # {}
        code_changed == CodeChanged(changed_files, dir)
    IN [passed |-> ~(code_changed /\ ~has_any_proof),
        has_screenshots |-> has_screenshots,
        has_progress_log |-> has_progress_log,
        new_proofs |-> proof_files_in_commit,
        new_screenshots_count |-> Cardinality(new_screenshots),
        new_documents_count |-> Cardinality(new_documents),
        total_proofs_in_repo |-> Cardinality(on_disk \ {".gitkeep"}),
        code_changed |-> code_changed,
        status |-> IF code_changed /\ ~has_any_proof
                   THEN "No proofs submitted with code changes"
                   ELSE IF ~code_changed
                        THEN "No code changes (proof not required)"
                        ELSE "proofs counted"]

MaxChanges == 2

ProofDirs == {"proofs/", "proofs", "docs/evidence/"}

\* What a commit can do to the files of the model's repository.
Changes ==
    {[path |-> <<"proofs", "shot.png">>, status |-> "A", plain |-> TRUE],
     [path |-> <<"proofs", "shot.png">>, status |-> "D", plain |-> TRUE],
     \* a screenshot whose name on disk has an accented letter
     [path |-> <<"proofs", "capture.png">>, status |-> "A", plain |-> FALSE],
     [path |-> <<"proofs", "log.md">>, status |-> "M", plain |-> TRUE],
     [path |-> <<"proofs", "trace.bin">>, status |-> "A", plain |-> TRUE],
     [path |-> <<"proofs", ".gitkeep">>, status |-> "A", plain |-> TRUE],
     [path |-> <<"docs", "evidence", "shot.png">>, status |-> "A",
      plain |-> TRUE],
     [path |-> <<"main.py">>, status |-> "M", plain |-> TRUE],
     [path |-> <<"src", "main.py">>, status |-> "A", plain |-> TRUE],
     [path |-> <<".pbl", "config.json">>, status |-> "M", plain |-> TRUE],
     [path |-> <<".github", "ci.yml">>, status |-> "M", plain |-> TRUE],
     [path |-> <<"scripts", "run.py">>, status |-> "M", plain |-> TRUE]}

\* A commit touches a path once.
ChangeSets ==
    {cs \in SUBSET Changes :
        /\ Cardinality(cs) <= MaxChanges
        /\ \A c, d \in cs : c.path = d.path => c = d}

\* git raised or timed out; the commit has no parent; the changes are listed.
DiffTrees ==
    {[outcome |-> "raised", changes |-> {}]}
    \cup [outcome : {"root", "listed"}, changes : ChangeSets]

CheckProofs ==
    /\ analyzer = "proofs"
    /\ proofs = None
    /\ proofs' = Some(check_proofs(proof_dir, diff_tree, stored))
    /\ UNCHANGED <<rerunVars, evaluationVars, analyzer, config, commit, timing, values, gini,
                   contributionVars, aiVars, patternVars, parserVars,
                   searchVars, proof_dir, diff_tree, stored>>

InitProofs ==
    /\ analyzer = "proofs"
    /\ IdleRerun
    /\ IdleEvaluation
    /\ proof_dir \in ProofDirs
    /\ diff_tree \in DiffTrees
    /\ stored \in SUBSET {".gitkeep", "shot.png"}
    /\ proofs = None
    /\ config = NoConfig
    /\ commit = NoCommit
    /\ timing = None
    /\ values = <<>>
    /\ gini = None
    /\ IdleContribution
    /\ IdleAi
    /\ IdlePatterns
    /\ IdleParser
    /\ IdleSearch

NextProofs == CheckProofs

SpecProofs == InitProofs /\ [][NextProofs]_vars

\* ------------------------------------- check_quality (the linter's verdict)
\*
\* q.language is the configured language, q.py_files the number of Python
\* files under the source directory, q.pylint what running the linter gave and
\* q.score the rating it printed, in tenths; q.min_score is in tenths too.

LanguageLower(language) ==
    IF language = "Python" THEN "python" ELSE language

\* subprocess.run raised TimeoutExpired or FileNotFoundError.
PylintFailed ==
    [passed |-> FALSE, score |-> Some(0), detail |-> "Pylint execution error"]

check_quality(q) ==
    IF LanguageLower(q.language) # "python"
    THEN [passed |-> TRUE, score |-> None,
          detail |-> "Quality check not configured"]
    ELSE IF q.py_files = 0
         THEN [passed |-> TRUE, score |-> None,
               detail |-> "No Python files found in src/"]
         ELSE IF q.pylint \in {"timeout", "not found"}
              THEN PylintFailed
              ELSE LET score == IF q.pylint = "rated" THEN q.score ELSE 0
                   IN [passed |-> score >= q.min_score,
                       score |-> Some(score), detail |-> "Pylint"]

\* The linter timed out, the interpreter was not found, the run printed no
\* rating (the pylint module is not installed), or it rated the code.
QualityInputs ==
    {q \in [language : {"python", "Python", "java"}, py_files : {0, 2},
            pylint : {"timeout", "not found", "no rating", "rated"},
            score : {0, 69, 70, 100}, min_score : {70}] :
        /\ q.pylint # "rated" => q.score = 0
        /\ (LanguageLower(q.language) # "python" \/ q.py_files = 0)
               => (q.pylint = "no rating" /\ q.language # "Python")}

\* --------------------------------------- check_plagiarism and run_evaluation

LayerNames ==
    <<"L1_copydetect", "L2_jplag", "L3_github_search", "L4_ai_detection",
      "L5_commit_patterns">>

CheckNames == <<"timing", "quality", "proofs", "contribution", "plagiarism">>

\* [k for k, v in results.items() if not v.get("passed", True)], in the order
\* the layers were run.
RECURSIVE CriticalFrom(_, _)
CriticalFrom(layers, i) ==
    IF i > Len(LayerNames) THEN <<>>
    ELSE IF layers[LayerNames[i]].passed
         THEN CriticalFrom(layers, i + 1)
         ELSE <<LayerNames[i]>> \o CriticalFrom(layers, i + 1)

\* Mutant: the verdict of the last result is not looked at.
AllPassed_ButLast(results, names) ==
    \A i \in 1 .. Len(names) - 1 : results[names[i]].passed

\* all(r.get("passed", True) for r in results.values())
AllPassed(results, names) ==
    \A i \in 1 .. Len(names) : results[names[i]].passed

\* verdicts: what layers 1, 3, 4 and 5 returned as passed.
check_plagiarism(verdicts) ==
    LET results ==
            [k \in {LayerNames[i] : i \in 1 .. Len(LayerNames)} |->
                [passed |-> IF k = "L2_jplag" THEN TRUE ELSE verdicts[k]]]
        all_passed == AllPassed(results, LayerNames)
    IN [passed |-> all_passed,
        layers |-> results,
        critical_layers |-> CriticalFrom(results, 1),
        status |-> IF all_passed THEN "All layers clear" ELSE "Flagged by"]

\* No timestamp reached run_evaluation.
NoTimestamp == [passed |-> TRUE, detail |-> "Commit timestamp not available"]

\* c.timing: no timestamp, or what check_timing did with the one it got.
run_evaluation(c) ==
    IF c.timing = "raised" THEN [raised |-> TRUE]
    ELSE LET results ==
                 [timing |-> IF c.timing = "no timestamp" THEN NoTimestamp
                             ELSE [passed |-> c.timing = "passed",
                                   detail |-> "check_timing"],
                  quality |-> check_quality(c.quality),
                  proofs |-> [passed |-> c.proofs],
                  contribution |-> [passed |-> c.contribution],
                  plagiarism |-> check_plagiarism(c.layers)]
         IN [raised |-> FALSE,
             results |-> results,
             all_passed |-> AllPassed(results, CheckNames)]

SearchedLayers ==
    {"L1_copydetect", "L3_github_search", "L4_ai_detection",
     "L5_commit_patterns"}

Evaluations ==
    [timing : {"no timestamp", "passed", "failed", "raised"},
     quality : QualityInputs,
     proofs : BOOLEAN,
     contribution : BOOLEAN,
     layers : [SearchedLayers -> BOOLEAN]]

RunEvaluation ==
    /\ analyzer = "evaluation"
    /\ evaluation = None
    /\ evaluation' = Some(run_evaluation(checks[1]))
    /\ UNCHANGED <<rerunVars, analyzer, config, commit, timing, values, gini,
                   contributionVars, aiVars, patternVars, parserVars,
                   searchVars, proofVars, checks>>

InitEvaluation ==
    /\ analyzer = "evaluation"
    /\ IdleRerun
    /\ checks \in {Some(c) : c \in Evaluations}
    /\ evaluation = None
    /\ config = NoConfig
    /\ commit = NoCommit
    /\ timing = None
    /\ values = <<>>
    /\ gini = None
    /\ IdleContribution
    /\ IdleAi
    /\ IdlePatterns
    /\ IdleParser
    /\ IdleSearch
    /\ IdleProofs

NextEvaluation == RunEvaluation

SpecEvaluation == InitEvaluation /\ [][NextEvaluation]_vars

\* ------------------------------------------- an analyzer called twice over
\*
\* The same analyzer is called twice on the inputs of the run while the wall
\* clock of the machine moves on.  No analyzer reads the clock: the only
\* instant check_timing works from is the timestamp it is handed.

MaxTicks == 1

\* Mutant: the instant is read from the wall clock.
CommitInstant_Now(commit_timestamp_iso, now) ==
    IF commit_timestamp_iso.wellformed
    THEN [commit_timestamp_iso EXCEPT !.wall = now]
    ELSE commit_timestamp_iso

\* commit_utc = datetime.fromisoformat(commit_timestamp_iso...): the instant
\* check_timing evaluates.
CommitInstant(commit_timestamp_iso, now) == commit_timestamp_iso

\* One call of the analyzer of the run, made when the clock reads now.
Analyze(now) ==
    CASE analyzer = "timing" -> check_timing(config, CommitInstant(commit, now))
      [] analyzer = "gini" -> calculate_gini(values)
      [] analyzer = "contribution" ->
             check_contributions(members, min_contribution_pct)
      [] analyzer = "ai" -> layer4_ai_detection(metrics)
      [] analyzer = "patterns" ->
             layer5_commit_patterns(git_log_raised, commits)

\* The configurations of one team in one zone, with every milestone list.
RerunConfigs ==
    {c \in Configs :
        c.timezone = "Asia/Tokyo" /\ c.grace_period_hours = 2
        /\ c.class_days = <<"Monday", "Saturday">>}

RerunLogs == LogsUpTo(2) \cup LongLogs

Tick ==
    /\ clock < MaxTicks
    /\ clock' = clock + 1
    /\ UNCHANGED <<analyzer, config, commit, timing, values, gini,
                   contributionVars, aiVars, patternVars, parserVars,
                   searchVars, proofVars, evaluationVars, called_at,
                   first_run, second_run>>

RunFirst ==
    /\ first_run = None
    /\ first_run' = Some(Analyze(clock))
    /\ called_at' = Append(called_at, clock)
    /\ UNCHANGED <<analyzer, config, commit, timing, values, gini,
                   contributionVars, aiVars, patternVars, parserVars,
                   searchVars, proofVars, evaluationVars, clock, second_run>>

RunSecond ==
    /\ first_run # None
    /\ second_run = None
    /\ second_run' = Some(Analyze(clock))
    /\ called_at' = Append(called_at, clock)
    /\ UNCHANGED <<analyzer, config, commit, timing, values, gini,
                   contributionVars, aiVars, patternVars, parserVars,
                   searchVars, proofVars, evaluationVars, clock, first_run>>

InitRerun ==
    /\ analyzer \in {"timing", "gini", "contribution", "ai", "patterns"}
    /\ clock = 0
    /\ called_at = <<>>
    /\ first_run = None
    /\ second_run = None
    /\ IF analyzer = "timing"
       THEN config \in RerunConfigs /\ commit \in Timestamps
       ELSE config = NoConfig /\ commit = NoCommit
    /\ timing = None
    /\ IF analyzer = "gini" THEN values \in ValueLists ELSE values = <<>>
    /\ gini = None
    /\ IF analyzer = "contribution"
       THEN /\ members \in Teams
            /\ min_contribution_pct \in MinContributionPcts
            /\ contribution = None
       ELSE IdleContribution
    /\ IF analyzer = "ai"
       THEN metrics \in MetricBundles /\ ai_detection = None
       ELSE IdleAi
    /\ IF analyzer = "patterns"
       THEN /\ \/ git_log_raised = FALSE /\ commits \in RerunLogs
               \/ git_log_raised = TRUE /\ commits = <<>>
            /\ commit_patterns = None
       ELSE IdlePatterns
    /\ IdleParser
    /\ IdleSearch
    /\ IdleProofs
    /\ IdleEvaluation

NextRerun ==
    \/ Tick
    \/ RunFirst
    \/ RunSecond

SpecRerun == InitRerun /\ [][NextRerun]_vars

\* Every analyzer, one per run.
Init ==
    \/ InitTiming
    \/ InitGini
    \/ InitContribution
    \/ InitAi
    \/ InitPatterns
    \/ InitParser
    \/ InitSearch
    \/ InitProofs
    \/ InitEvaluation
    \/ InitRerun

Next ==
    \/ CheckTiming
    \/ CalculateGini
    \/ CheckContributions
    \/ CheckAi
    \/ CheckPatterns
    \/ ParseGitLog
    \/ GithubSearch
    \/ CheckProofs
    \/ RunEvaluation
    \/ Tick
    \/ RunFirst
    \/ RunSecond

Spec == Init /\ [][Next]_vars

\* ================================================================ claims
\* ---------------------------------------------------------------- timing

\* The last check_timing call has ended, by a return or by an exception.
TimingDone == timing # None
TimingResult == timing[1]
\* It returned a dict.
TimingReturned == TimingDone /\ TimingResult.raised = NoException

\* The commit's hour number in the configured zone.
CommitLocalHour == (commit.wall - commit.offset) + ZoneInfo(config.timezone)[1]
Milestones == config.milestones
Grace == config.grace_period_hours
DeadlineHour(i) == Milestones[i].deadline * HoursPerDay

\* The commit matches phase i's window.
InWindow(i) ==
    /\ CommitLocalHour <= DeadlineHour(i) + Grace
    /\ (i = 1 \/ CommitLocalHour > DeadlineHour(i - 1))

\* The deadline of the milestone whose label the call resolved.
ResolvedDeadlineHour ==
    DeadlineHour(CHOOSE i \in DOMAIN Milestones :
                     Milestones[i].phase = TimingResult.current_phase[1])

\* C1: current_phase is the label of the FIRST (lowest-index) phase whose window
\* the commit matches: commit <= deadline[i] + grace and (i = 0 or commit >
\* deadline[i-1]); a commit in phase i's grace period resolves to phase i even
\* when a later phase is configured.
C1_FirstMatchingPhase ==
    TimingReturned =>
        \A i \in DOMAIN Milestones :
            (InWindow(i) /\ \A j \in 1 .. i - 1 : ~InWindow(j))
                => TimingResult.current_phase = Some(Milestones[i].phase)

\* C2: is_late holds exactly when the commit is later than the resolved phase's
\* deadline and later than that deadline plus grace; a commit after a deadline
\* but within its grace period is never late; passed is the negation of is_late.
C2_LateIffPastGrace ==
    TimingReturned =>
        /\ TimingResult.passed = ~TimingResult.is_late
        /\ TimingResult.is_late <=>
              /\ TimingResult.current_phase # None
              /\ CommitLocalHour > ResolvedDeadlineHour
              /\ CommitLocalHour > ResolvedDeadlineHour + Grace
        /\ \A i \in DOMAIN Milestones :
              (CommitLocalHour > DeadlineHour(i)
                  /\ CommitLocalHour <= DeadlineHour(i) + Grace)
                  => ~TimingResult.is_late

\* A commit after the resolved phase's deadline, inside its grace period, on time.
C2_Witness ==
    /\ TimingReturned
    /\ TimingResult.current_phase # None
    /\ Grace > 0
    /\ CommitLocalHour > ResolvedDeadlineHour
    /\ CommitLocalHour <= ResolvedDeadlineHour + Grace
    /\ ~TimingResult.is_late

\* The commit is later than the last deadline plus grace.
PastLastGrace ==
    /\ Milestones # <<>>
    /\ CommitLocalHour > DeadlineHour(Len(Milestones)) + Grace

\* C3: with a non-empty milestone list, a commit later than the last deadline
\* plus grace is late, fails, is not within a milestone, and current_phase is the
\* last milestone's label.
C3_PastAllDeadlines ==
    (TimingReturned /\ PastLastGrace) =>
        /\ TimingResult.is_late
        /\ ~TimingResult.passed
        /\ ~TimingResult.is_within_milestone
        /\ TimingResult.current_phase = Some(Milestones[Len(Milestones)].phase)

\* Such a commit, with two or more milestones configured.
C3_Witness ==
    /\ TimingReturned
    /\ PastLastGrace
    /\ Len(Milestones) >= 2
    /\ TimingResult.is_late

\* deadline[i-1] + grace < commit <= deadline[i], or commit <= deadline[0].
StrictlyInPhase(i) ==
    /\ CommitLocalHour <= DeadlineHour(i)
    /\ (i = 1 \/ CommitLocalHour > DeadlineHour(i - 1) + Grace)

\* C4: a commit with deadline[i-1] + grace < t <= deadline[i] (t <= deadline[0]
\* for the first phase) resolves to phase i, on time, passed, within the
\* milestone, with days_until_deadline >= 0.
C4_OnTimeInPhase ==
    TimingReturned =>
        \A i \in DOMAIN Milestones :
            StrictlyInPhase(i) =>
                /\ TimingResult.current_phase = Some(Milestones[i].phase)
                /\ ~TimingResult.is_late
                /\ TimingResult.passed
                /\ TimingResult.is_within_milestone
                /\ TimingResult.days_until_deadline # None
                /\ TimingResult.days_until_deadline[1] >= 0

\* A commit past phase 1's deadline and grace, before phase 2's deadline, that
\* passes as phase 2.
C4_Witness ==
    /\ TimingReturned
    /\ Len(Milestones) >= 2
    /\ StrictlyInPhase(2)
    /\ Grace > 0
    /\ TimingResult.current_phase = Some(Milestones[2].phase)
    /\ TimingResult.passed

CommitWeekday == (CommitLocalHour \div HoursPerDay) % 7

\* The weekday a configured class-day name denotes, whatever its case.
WeekdayOfName(name) ==
    CASE name \in {"Monday", "MONDAY", "monday"} -> 0
      [] name \in {"Tuesday", "TUESDAY", "tuesday"} -> 1
      [] name \in {"Wednesday", "WEDNESDAY", "wednesday"} -> 2
      [] name \in {"Thursday", "THURSDAY", "thursday"} -> 3
      [] name \in {"Friday", "FRIDAY", "friday"} -> 4
      [] name \in {"Saturday", "SATURDAY", "saturday"} -> 5
      [] name \in {"Sunday", "SUNDAY", "sunday"} -> 6
      [] OTHER -> -1

\* The same call on a configuration with no class days.
WithoutClassDays == check_timing([config EXCEPT !.class_days = <<>>], commit)

\* C6: is_class_day holds exactly when the commit's weekday in the configured
\* zone is, case-insensitively, one of the configured class days; it does not
\* depend on the milestones or the grace period, and the class days change
\* neither passed, is_late nor current_phase.
C6_ClassDayIndependent ==
    TimingReturned =>
        /\ TimingResult.is_class_day <=>
              \E k \in DOMAIN config.class_days :
                  WeekdayOfName(config.class_days[k]) = CommitWeekday
        /\ \A ms \in MilestoneLists, g \in GraceHours :
              LET other == check_timing([config EXCEPT !.milestones = ms,
                                                       !.grace_period_hours = g],
                                        commit)
              IN  other.is_class_day = TimingResult.is_class_day
        /\ WithoutClassDays.passed = TimingResult.passed
        /\ WithoutClassDays.is_late = TimingResult.is_late
        /\ WithoutClassDays.current_phase = TimingResult.current_phase

\* A late commit on a class day configured in another letter case.
C6_Witness ==
    /\ TimingReturned
    /\ TimingResult.is_class_day
    /\ TimingResult.is_late
    /\ \E k \in DOMAIN config.class_days :
          /\ WeekdayOfName(config.class_days[k]) = CommitWeekday
          /\ config.class_days[k] # TimingResult.commit_day

\* C7: a commit timestamp that is no ISO-8601 stamp does not make check_timing
\* raise: it returns a report with a neutral (passing) verdict; only an
\* unresolvable time zone propagates.
C7_MalformedTimestampNeutral ==
    (TimingDone /\ ZoneInfo(config.timezone) # None) =>
        /\ TimingResult.raised = NoException
        /\ (~commit.wellformed => TimingResult.passed)

\* ------------------------------------------------------------------ gini

GiniDone == gini # None
GiniNum == gini[1][1]
GiniDen == gini[1][2]
TeamSize == Len(values)
TotalCommits == Sum(values)

\* C8: for every finite sequence of non-negative integers the returned value
\* lies in the closed interval [0, 1].
C8_GiniInUnitInterval ==
    GiniDone =>
        /\ GiniDen > 0
        /\ 0 <= GiniNum
        /\ GiniNum <= GiniDen

\* A team of three or more whose score is strictly between 0 and 1.
C8_Witness ==
    /\ GiniDone
    /\ TeamSize >= 3
    /\ 0 < GiniNum
    /\ GiniNum < GiniDen

\* The sum of |v[p[1]] - v[p[2]]| over the index pairs p of P.
RECURSIVE SumOverPairs(_, _)
SumOverPairs(P, v) ==
    IF P = {} THEN 0
    ELSE LET p == CHOOSE q \in P : TRUE
             d == v[p[1]] - v[p[2]]
         IN  (IF d < 0 THEN -d ELSE d) + SumOverPairs(P \ {p}, v)

\* The sum over all ordered pairs (i, j) of |x_i - x_j|, on the list as given.
PairwiseSum == SumOverPairs((DOMAIN values) \X (DOMAIN values), values)

AllEqual == \A i, j \in DOMAIN values : values[i] = values[j]

\* C9: the result is exactly (sum over ordered pairs of |x_i - x_j|) / (2 n S)
\* for n >= 2 and S > 0, and exactly 0 for the empty list, a single value,
\* all-zero values and all-equal values; for [5,10,15,20] it lies strictly
\* between 0.1 and 0.5 and for [1,9] it exceeds 0.3.
C9_GiniExactFormula ==
    GiniDone =>
        /\ (TeamSize >= 2 /\ TotalCommits > 0) =>
              GiniNum * (2 * TeamSize * TotalCommits) = PairwiseSum * GiniDen
        /\ (TeamSize <= 1 \/ TotalCommits = 0 \/ AllEqual) => GiniNum = 0
        /\ values = <<5, 10, 15, 20>> =>
              (10 * GiniNum > GiniDen /\ 2 * GiniNum < GiniDen)
        /\ values = <<1, 9>> => 10 * GiniNum > 3 * GiniDen

\* An unequal list that is not in ascending order, scored above 0.
C9_Witness ==
    /\ GiniDone
    /\ TeamSize >= 3
    /\ \E i \in 1 .. TeamSize - 1 : values[i] > values[i + 1]
    /\ GiniNum > 0
    /\ GiniNum * (2 * TeamSize * TotalCommits) = PairwiseSum * GiniDen

\* The list has the shape [0, ..., 0, X]: one or more zeros, then X > 0.
SingleNonzeroLast ==
    /\ TeamSize >= 2
    /\ values[TeamSize] > 0
    /\ \A i \in 1 .. TeamSize - 1 : values[i] = 0

\* C10 as stated: every list [0, ..., 0, X] with X > 0, whatever its length,
\* scores strictly above 0.6.
C10_SingleNonzeroAbove06 ==
    (GiniDone /\ SingleNonzeroLast) => 5 * GiniNum > 3 * GiniDen

\* C10 as amended: a list [0, ..., 0, X] with X > 0 and n values scores exactly
\* (n - 1) / n, which is strictly above 0.6 when n >= 3 (and is 0.5 for n = 2).
C10_SingleNonzeroFromThree ==
    (GiniDone /\ SingleNonzeroLast) =>
        /\ GiniNum * TeamSize = (TeamSize - 1) * GiniDen
        /\ TeamSize >= 3 => 5 * GiniNum > 3 * GiniDen

\* Such a list of three or more values, scored above 0.6.
C10_Witness ==
    /\ GiniDone
    /\ SingleNonzeroLast
    /\ TeamSize >= 3
    /\ 5 * GiniNum > 3 * GiniDen

\* --------------------------------------------------------- contributions

ContributionDone == contribution # None
ContributionResult == contribution[1]
\* check_contributions returned for a repository with history.
ContributionScored == ContributionDone /\ members # <<>>
Warnings == ContributionResult.warnings
HasWarnings == Warnings # <<>>
Label == ContributionResult.equity_label[1]
ReportedGini == ContributionResult.gini_coefficient
TeamCount == Len(members)
AllCommits == Sum(members)

\* C11: the label is 'Balanced' only if the Gini score is <= 0.2 and no warning
\* fired, 'Needs Attention' if warnings exist and the score is <= 0.5, and
\* 'Unbalanced' if the score is > 0.5 and the team has more than one contributor.
C11_LabelByScore ==
    ContributionScored =>
        /\ Label = "Balanced" => (ReportedGini <= 200 /\ ~HasWarnings)
        /\ (HasWarnings /\ ReportedGini <= 500) => Label = "Needs Attention"
        /\ (ReportedGini > 500 /\ TeamCount > 1) => Label = "Unbalanced"

\* The sum over all ordered pairs of contributors of |commits_i - commits_j|.
CommitPairSum ==
    SumOverPairs((DOMAIN members) \X (DOMAIN members), members)

\* The Gini score over the commit counts, rounded to three decimals, is above
\* 0.5: the exact score CommitPairSum / (2 n S) is above 0.5005.
RoundedGiniAboveHalf ==
    /\ TeamCount >= 2
    /\ AllCommits > 0
    /\ 2000 * CommitPairSum > 1001 * (2 * TeamCount * AllCommits)

\* C12: passed is false exactly when the Gini score over the commit counts,
\* rounded to three decimals, is > 0.5 and there is more than one contributor
\* (so warnings alone never fail); an empty history passes with the warning
\* 'No git history found'.
C12_FailsIffUnbalanced ==
    ContributionDone =>
        /\ members # <<>> =>
              (ContributionResult.passed = FALSE
                  <=> (RoundedGiniAboveHalf /\ TeamCount > 1))
        /\ members = <<>> =>
              /\ ContributionResult.passed
              /\ Warnings = <<[kind |-> "No git history found"]>>

\* A team with low-share and dominance warnings and a score of exactly 0.5,
\* which passes.
C12_Witness ==
    /\ ContributionScored
    /\ ContributionResult.passed
    /\ ReportedGini = 500
    /\ \E k \in DOMAIN Warnings : Warnings[k].kind = "low"
    /\ \E k \in DOMAIN Warnings : Warnings[k].kind = "dominance"

\* The number of low-contribution warnings naming contributor i.
LowWarningsFor(i) ==
    Cardinality({k \in DOMAIN Warnings :
                    Warnings[k].kind = "low" /\ Warnings[k].name = i})

\* Contributor i's share of all commits is below the configured minimum.
ShareBelowMinimum(i) ==
    members[i] * 1000 < min_contribution_pct * AllCommits

\* C13: a contributor gets a low-contribution warning exactly when the share of
\* all commits is below the configured minimum percentage and the total number
\* of commits exceeds 5; exactly one warning per contributor that qualifies.
C13_LowContributionWarning ==
    ContributionScored =>
        \A i \in DOMAIN members :
            /\ LowWarningsFor(i) <= 1
            /\ LowWarningsFor(i) = 1 <=> (ShareBelowMinimum(i) /\ AllCommits > 5)

DominanceWarningsGiven ==
    {k \in DOMAIN Warnings : Warnings[k].kind = "dominance"}

\* Contributor i holds more than 70% of all commits.
HoldsOver70(i) == members[i] * 10 > 7 * AllCommits

\* C14: the dominance warning is emitted exactly when some contributor holds
\* more than 70% of all commits and the team has more than one contributor; it
\* names the contributor with the most commits.
C14_DominanceWarning ==
    ContributionScored =>
        /\ Cardinality(DominanceWarningsGiven) <= 1
        /\ DominanceWarningsGiven # {}
              <=> (TeamCount > 1 /\ \E i \in DOMAIN members : HoldsOver70(i))
        /\ \A k \in DominanceWarningsGiven :
              \A j \in DOMAIN members : members[j] <= members[Warnings[k].name]

\* ------------------------------------------------------------ AI heuristics

AiDone == ai_detection # None
AiResult == ai_detection[1]
\* layer4_ai_detection returned for a tree with Python files.
AiScored == AiDone /\ metrics.has_py_files
SubScores == AiResult.scores
SubScoreSum == Sum(SubScores)

\* The preconditions of the four heuristics, in the order they run.
PreconditionHeld ==
    << metrics.total_code_lines > 0,
       metrics.total_functions > 2,
       metrics.variable_names # <<>>,
       metrics.total_blocks > 3 >>

HeuristicsHeld == SelectSeq(<<1, 2, 3, 4>>, LAMBDA h : PreconditionHeld[h])

\* The band values of the four heuristics, in tenths.
Bands == << {8, 4, 1}, {7, 3, 1}, {6, 1}, {6, 1} >>

\* One sub-score per heuristic whose precondition held, each a band value.
SubScoresAsPrescribed ==
    /\ Len(SubScores) = Len(HeuristicsHeld)
    /\ \A k \in DOMAIN SubScores : SubScores[k] \in Bands[HeuristicsHeld[k]]

C16_ClassifiedByScore ==
    AiDone =>
        /\ (metrics.has_py_files /\ AiResult.ai_score >= 60) =>
              (AiResult.status_label = "Likely AI" /\ ~AiResult.passed)
        /\ (metrics.has_py_files /\ AiResult.ai_score \in 40 .. 59) =>
              (AiResult.status_label = "Suspicious" /\ AiResult.passed)
        /\ (metrics.has_py_files /\ AiResult.ai_score < 40) =>
              (AiResult.status_label = "Human" /\ AiResult.passed)
        /\ ~metrics.has_py_files =>
              (AiResult.ai_score = 0 /\ AiResult.passed)

\* A tree scored 0.6 or more, which fails.
C16_Witness ==
    /\ AiScored
    /\ AiResult.ai_score >= 60
    /\ AiResult.status_label = "Likely AI"
    /\ ~AiResult.passed

AllLines(m) == m.total_code_lines + m.total_comment_lines

\* Bundle b has a higher comment ratio than bundle a.
HigherCommentRatio(a, b) ==
    /\ AllLines(a) > 0
    /\ AllLines(b) > 0
    /\ b.total_comment_lines * AllLines(a) > a.total_comment_lines * AllLines(b)

\* The bundles that differ from the analysed one in the line counts only.
SameButLines ==
    {m \in {[metrics EXCEPT !.total_code_lines = c, !.total_comment_lines = k] :
                c \in CodeLines, k \in CommentLines} : Measurable(m)}

\* C17: for any two bundles that differ only in a way that raises the comment
\* ratio, the ai_score of the bundle with the higher ratio is not lower.
C17_MonotonicInCommentRatio ==
    AiScored =>
        \A other \in SameButLines :
            HigherCommentRatio(metrics, other) =>
                layer4_ai_detection(other).ai_score >= AiResult.ai_score

\* C18: every sub-score above the lowest band (other than 0.1) comes with
\* exactly one flag and a sub-score in the lowest band with none: the number of
\* flags equals the number of sub-scores above 0.1.
C18_FlagPerTriggeredThreshold ==
    AiScored =>
        Len(AiResult.flags)
            = Cardinality({k \in DOMAIN SubScores : SubScores[k] # 1})

\* --------------------------------------------------------- commit behaviour

PatternsDone == commit_patterns # None
PatternResult == commit_patterns[1]
PatternFlags == PatternResult.flags

\* The commits of the repository with more added lines than the ceiling.
CodeDumpCommits == {i \in DOMAIN commits : commits[i].additions > max_dump_lines}

\* The number of critical flags naming the commit at position i of the log.
CriticalFlagsFor(i) ==
    Cardinality({k \in DOMAIN PatternFlags :
                    PatternFlags[k].critical /\ PatternFlags[k].sha = i})

\* C19: passed is false exactly when at least one commit added more lines than
\* the ceiling of 200, whatever the other commits and the warnings are, and one
\* critical code-dump flag is emitted per such commit.
C19_FailsIffCodeDump ==
    PatternsDone =>
        /\ PatternResult.passed = FALSE <=> CodeDumpCommits # {}
        /\ \A i \in DOMAIN commits :
              CriticalFlagsFor(i) = IF i \in CodeDumpCommits THEN 1 ELSE 0

RushFlagged ==
    \E k \in DOMAIN PatternFlags : PatternFlags[k].kind = "Rush detected"

\* The commits of the repository whose timestamp parses.
Timestamped == {i \in DOMAIN commits : commits[i].date # None}
HourOf(i) == commits[i].date[1]
Earliest == CHOOSE i \in Timestamped : \A j \in Timestamped : HourOf(i) <= HourOf(j)
Latest == CHOOSE i \in Timestamped : \A j \in Timestamped : HourOf(j) <= HourOf(i)

\* The timestamped commits at or after first + 75% of the span.
LateCommits ==
    {i \in Timestamped :
        4 * HourOf(i) >= 4 * HourOf(Earliest)
                            + 3 * (HourOf(Latest) - HourOf(Earliest))}

RECURSIVE AddedBy(_)
AddedBy(S) ==
    IF S = {} THEN 0
    ELSE LET i == CHOOSE x \in S : TRUE
         IN commits[i].additions + AddedBy(S \ {i})

\* C20: with at least 4 timestamped commits a rush warning is emitted exactly
\* when the lines added at or after the cutoff are more than 60% of all added
\* lines; with fewer than 4 timestamped commits no rush warning is emitted.
C20_RushRule ==
    PatternsDone =>
        (RushFlagged <=>
            /\ Cardinality(Timestamped) >= 4
            /\ 10 * AddedBy(LateCommits) > 6 * AddedBy(Timestamped))

\* The git log was obtained and returned by the analysis.
PatternsAnalysed == PatternsDone /\ ~git_log_raised

LowFrequencyFlagged ==
    \E k \in DOMAIN PatternFlags : PatternFlags[k].kind = "Low commit frequency"

AllAdded == AddedBy(DOMAIN commits)

\* C21: the low-frequency warning is emitted exactly when the average number of
\* added lines per commit exceeds 150 and there are fewer than 5 commits; the
\* warning on its own never makes passed false.
C21_LowFrequencyWarning ==
    PatternsAnalysed =>
        /\ LowFrequencyFlagged <=>
              /\ commits # <<>>
              /\ AllAdded > 150 * Len(commits)
              /\ Len(commits) < 5
        /\ (\A k \in DOMAIN PatternFlags :
                PatternFlags[k].kind = "Low commit frequency")
              => PatternResult.passed

\* C22: when the git log cannot be obtained, or holds no commit, the result is
\* neutral: passed, no flag, and a detail that says which of the two happened.
C22_NeutralWithoutCommits ==
    PatternsDone =>
        /\ git_log_raised =>
              /\ PatternResult.passed
              /\ PatternFlags = <<>>
              /\ PatternResult.label = "Git log unavailable"
        /\ (~git_log_raised /\ commits = <<>>) =>
              /\ PatternResult.passed
              /\ PatternFlags = <<>>
              /\ PatternResult.label = "No commits to analyze"

\* The analysis returned although git log raised.
C22_Witness ==
    PatternsDone /\ git_log_raised /\ PatternResult.passed

\* The log without the commits whose timestamp does not parse.
TimestampedLog == SelectSeq(commits, LAMBDA e : e.date # None)

FlagKinds(flags) == [k \in DOMAIN flags |-> flags[k].kind]

\* C25: a commit whose timestamp cannot be parsed is skipped: no code-dump flag
\* names it, and the verdict, the flags and the reported number of commits are
\* those of the log without it.
C25_UnparsedTimestampSkipped ==
    PatternsAnalysed =>
        LET rest == layer5_commit_patterns(FALSE, TimestampedLog)
        IN /\ \A i \in DOMAIN commits :
                 commits[i].date = None => CriticalFlagsFor(i) = 0
           /\ PatternResult.passed = rest.passed
           /\ FlagKinds(PatternFlags) = FlagKinds(rest.flags)
           /\ PatternResult.total_commits = rest.total_commits

\* The top band of each heuristic, in tenths.
TopBand == <<8, 7, 6, 6>>

\* The heuristics whose sub-score is in the top band.
InTopBand ==
    {k \in DOMAIN SubScores : SubScores[k] = TopBand[HeuristicsHeld[k]]}

\* C30: whenever layer4_ai_detection fails, its flags list is non-empty and at
\* least one sub-heuristic is in its top band; when all four preconditions
\* hold it fails only if all four sub-heuristics are in their top band.
C30_FailureExplained ==
    (AiDone /\ ~AiResult.passed) =>
        /\ AiResult.flags # <<>>
        /\ InTopBand # {}
        /\ Len(AiResult.flags) >= Cardinality(InTopBand)
        /\ Len(HeuristicsHeld) = 4 => InTopBand = 1 .. 4

\* A failing verdict with all four preconditions held.
C30_Witness ==
    AiScored /\ ~AiResult.passed /\ Len(HeuristicsHeld) = 4

\* ----------------------------------------------------------- the line parser

ParserDone == parsed_commits # None
ParsedCommits == parsed_commits[1]

\* A header line as git prints it: sha, author, date and subject.
WellFormedHeader(i) ==
    lines[i].sep = "unit" /\ Len(lines[i].parts) = 4

NumericField(field) == field = "-" \/ field \in DOMAIN IntOf

\* A numstat line with two counts ("-" for a binary file) and a path.
ValidStat(i) ==
    /\ lines[i].sep = "tab"
    /\ Len(lines[i].parts) = 3
    /\ NumericField(lines[i].parts[1])
    /\ NumericField(lines[i].parts[2])

AddedCount(i) == IF lines[i].parts[1] = "-" THEN 0 ELSE IntOf[lines[i].parts[1]]

Headers == {i \in DOMAIN lines : WellFormedHeader(i)}

\* The valid stat lines whose most recent header line is line h.
StatsOf(h) ==
    {i \in DOMAIN lines :
        /\ ValidStat(i)
        /\ h < i
        /\ \A j \in Headers : j < i => j <= h}

RECURSIVE AddedCounts(_)
AddedCounts(S) ==
    IF S = {} THEN 0
    ELSE LET i == CHOOSE x \in S : TRUE
         IN AddedCount(i) + AddedCounts(S \ {i})

\* The k-th header line.
HeaderAt(k) ==
    CHOOSE h \in Headers : Cardinality({j \in Headers : j <= h}) = k

\* C29: the parser opens one commit per well-formed header line, in the order
\* of the headers, and credits to each the added counts of the valid stat
\* lines between its header and the next; stat lines before the first header
\* and non-numeric stat lines change nothing.
C29_StatLinesCredited ==
    ParserDone =>
        /\ Len(ParsedCommits) = Cardinality(Headers)
        /\ \A k \in DOMAIN ParsedCommits :
              k <= Cardinality(Headers) =>
                  /\ ParsedCommits[k].sha = HeaderAt(k)
                  /\ ParsedCommits[k].additions = AddedCounts(StatsOf(HeaderAt(k)))

\* --------------------------------------------------------------- code search

SearchDone == github_search # None
SearchResult == github_search[1]
\* The search ran: a token, the requests library and a function to search.
Searched ==
    /\ SearchDone
    /\ search.github_token
    /\ search.requests
    /\ search.functions # <<>>

\* The functions a query is sent for: the first three with enough tokens.
Queried ==
    {i \in DOMAIN search.functions :
        i <= 3 /\ search.functions[i].meaningful >= 3}

RateLimited == {i \in Queried : search.functions[i].response = "403"}

\* The matches answered before the first rate-limit response.
MatchesBeforeLimit ==
    {i \in Queried :
        /\ search.functions[i].response = "200 match"
        /\ \A j \in RateLimited : i < j}

\* matches_found counts the matches up to the first 403 and never exceeds
\* searched_functions = min(number of functions, 3).
MatchesCounted ==
    /\ SearchResult.searched_functions = Min(Len(search.functions), 3)
    /\ SearchResult.matches_found = Cardinality(MatchesBeforeLimit)
    /\ SearchResult.matches_found <= SearchResult.searched_functions

\* C27 as stated: passed is false exactly when matches_found is more than half
\* of the k = min(number of functions, 3) searched functions.
C27_FailsOnMajority ==
    Searched =>
        /\ MatchesCounted
        /\ SearchResult.passed = FALSE
              <=> 2 * SearchResult.matches_found
                      > SearchResult.searched_functions

\* C27 amended: passed is false exactly when at least 2 functions matched and
\* the matches are more than half of the searched functions; a single searched
\* function that matches passes.
C27_FailsOnMajorityOfTwo ==
    /\ Searched =>
          /\ MatchesCounted
          /\ SearchResult.passed = FALSE
                <=> /\ SearchResult.matches_found >= 2
                    /\ 2 * SearchResult.matches_found
                          > SearchResult.searched_functions
    /\ (SearchDone /\ ~Searched) =>
          SearchResult.passed /\ SearchResult.matches_found = 0

\* Two matches, then a rate-limit response: the check fails.
C27_Witness ==
    /\ Searched
    /\ ~SearchResult.passed
    /\ RateLimited # {}
    /\ SearchResult.matches_found = 2

\* ------------------------------------------------------------------ proofs

ProofsDone == analyzer = "proofs" /\ proofs # None
ProofResult == proofs[1]

Under(change, dir) ==
    Len(change.path) > Len(dir) /\ SubSeq(change.path, 1, Len(dir)) = dir

\* The code files the commit changed: outside the proof directory, .pbl/,
\* .github/ and scripts/.
CodeFilesChanged ==
    {c \in diff_tree.changes :
        /\ ~Under(c, DirOf(proof_dir))
        /\ ~Under(c, <<".pbl">>)
        /\ ~Under(c, <<".github">>)
        /\ ~Under(c, <<"scripts">>)}

\* The proof files the commit brought: added or rewritten under the proof
\* directory, .gitkeep apart.
ProofFilesAdded ==
    {c \in diff_tree.changes :
        /\ Under(c, DirOf(proof_dir))
        /\ c.status \in {"A", "M"}
        /\ c.path[Len(c.path)] # ".gitkeep"}

\* C28: check_proofs fails exactly when the commit changed a code file and
\* added no proof file under the proof directory; .gitkeep is neither a proof
\* nor code, and a commit without code changes passes.
C28_FailsIffCodeWithoutProof ==
    ProofsDone =>
        (ProofResult.passed = FALSE
            <=> (CodeFilesChanged # {} /\ ProofFilesAdded = {}))

\* C28 on the commits git lists in full: a commit with a parent, no deleted
\* proof file and no quoted path.
ListedInFull ==
    /\ diff_tree.outcome = "listed"
    /\ \A c \in diff_tree.changes : c.plain /\ c.status # "D"

C28_FailsIffCodeWithoutProof_ListedInFull ==
    (ProofsDone /\ ListedInFull) =>
        (ProofResult.passed = FALSE
            <=> (CodeFilesChanged # {} /\ ProofFilesAdded = {}))

\* -------------------------------------------------------------- evaluation

EvaluationDone ==
    analyzer = "evaluation" /\ evaluation # None /\ ~evaluation[1].raised
Evaluated == evaluation[1]
Plagiarism == Evaluated.results.plagiarism

FailedLayers ==
    {k \in DOMAIN Plagiarism.layers : Plagiarism.layers[k].passed = FALSE}

Listed(seq) == {seq[i] : i \in DOMAIN seq}

\* C23: all_passed is the AND of the five checks' passed; check_plagiarism's
\* passed is the AND of the five layers' passed, which is critical_layers
\* being empty; critical_layers is exactly the layers whose passed is false.
C23_VerdictIsConjunction ==
    EvaluationDone =>
        /\ Evaluated.all_passed
               <=> (\A k \in DOMAIN Evaluated.results :
                        Evaluated.results[k].passed = TRUE)
        /\ DOMAIN Evaluated.results
               = {"timing", "quality", "proofs", "contribution", "plagiarism"}
        /\ Plagiarism.passed
               <=> (\A k \in DOMAIN Plagiarism.layers :
                        Plagiarism.layers[k].passed = TRUE)
        /\ Plagiarism.passed <=> (Plagiarism.critical_layers = <<>>)
        /\ Listed(Plagiarism.critical_layers) = FailedLayers
        /\ Len(Plagiarism.critical_layers) = Cardinality(FailedLayers)

\* Only the plagiarism check fails, on two of its layers.
C23_Witness ==
    /\ EvaluationDone
    /\ ~Evaluated.all_passed
    /\ \A k \in DOMAIN Evaluated.results :
           k # "plagiarism" => Evaluated.results[k].passed
    /\ Plagiarism.critical_layers = <<"L1_copydetect", "L5_commit_patterns">>

\* The checks whose data or tool was not there: no timestamp, a linter that
\* could not be run or timed out.
TimingUnavailable == checks[1].timing = "no timestamp"
LinterUnavailable ==
    /\ LanguageLower(checks[1].quality.language) = "python"
    /\ checks[1].quality.py_files > 0
    /\ checks[1].quality.pylint \in {"timeout", "not found", "no rating"}

\* C24: a result produced because the data or the tool was unavailable has
\* passed = true, so unavailability alone never makes all_passed false.
C24_UnavailableNeverFails ==
    EvaluationDone =>
        /\ TimingUnavailable => Evaluated.results.timing.passed
        /\ LinterUnavailable => Evaluated.results.quality.passed
        /\ (\A k \in DOMAIN Evaluated.results :
                k # "quality" => Evaluated.results[k].passed)
               /\ LinterUnavailable
               => Evaluated.all_passed

\* ------------------------------------------------------------ determinism

BothRuns == first_run # None /\ second_run # None

=============================================================================
